---- MODULE Spec2Model ----
(***************************************************************************)
(* Model of tools/exchange/sim.py: the synthetic order-flow generator.     *)
(*                                                                         *)
(* Prices are integers counting a fine price unit; a tick_size is an       *)
(* integer number of those units.  The random source is modelled by its    *)
(* draws: every np.random call of a next_order call is one field of a      *)
(* draw record d, and uuid.uuid4() is the field d.uuid, an id that no      *)
(* order of the run carries yet.  volatility, drift and tick_time only     *)
(* shape the distributions of the draws; they are not state of the model.  *)
(***************************************************************************)
EXTENDS Integers, Sequences, FiniteSets, TLC

\* ---- bounds of the model ----
MaxOrders == 3          \* orders emitted in one run
MaxIds == 3             \* size of the pool uuid4 draws from
MaxTicks == 1           \* Exchange.tick calls in one run
MaxConfigOrders == 1    \* orders emitted in a run of an arbitrary configuration
MaxTwinOrders == 2      \* orders emitted by each of the two compared runs
MaxPriceOrders == 2     \* orders emitted in a run that varies the price draws

\* ---- program constants ----
BaseSize == 100         \* generate_order_size(base_size = 100)
ExTickSize == 2         \* Exchange.tick_size = 0.01, in price units of 0.005
ExTickTime == 1         \* Exchange.tick_time = 0.01, in time units of 0.01

\* An optional value is a sequence of length at most one.
None == << >>           \* Python None
Unset == << >>          \* an attribute or local that was never assigned
Some(v) == <<v>>
Val(x) == x[1]

order_types == <<"LIMIT", "MARKET", "CANCEL", "MODIFY">>
order_action == <<"BUY", "SELL">>

Symbols == {"AAPL", "MSFT"}
Ids == 1..MaxIds

\* ---- inputs ----
\* The driver's configuration: main() registers its instruments in order,
\* each with a positive init_price on the tick grid.
MainPrices == [s \in Symbols |-> IF s = "AAPL" THEN 4 ELSE 6]
MainInstruments == <<"AAPL", "MSFT">>
\* Any configuration the constructors accept.
InitPrices == {-3, 0, 5}
InstrumentLists == {<< >>, <<"AAPL", "MSFT">>, <<"MSFT", "AAPL">>}
TickSizes == {-2, 2}

\* ---- supports of the random draws ----
\* price_change: z * scaled_vol + scaled_drift; distance: the exponential
\* draw in hundredths; size: int(np.random.lognormal(mu, sigma)).
\* RunDraws fixes the numeric draws of the driver's runs, where only the
\* type, action, reference and id draws vary; WideDraws varies them all.
\* ids: the pool uuid4 draws from.
RunDraws == [price_change |-> {2}, distance |-> {50}, size |-> {5000}, ids |-> Ids]
WideDraws == [price_change |-> {-1, 1}, distance |-> {0, 50}, size |-> {0, 150, 5000},
              ids |-> Ids]

\* inst: the Instrument objects; ex: the Exchange object; emitted: the orders
\* next_order has returned, in order; ret: how the last call ended; calls: the
\* Exchange.tick calls made; config: the arguments the constructors were
\* given; twin: a second run of the same configuration.
\* The runs that vary the price draws: positive init_price on and off the
\* tick grid, positive tick sizes that may change from call to call.
\* The calls of generate_order_size on its own: the int the log-normal draw
\* truncates to, and base_size as a fraction (1, 1.25, 1.5, 100).
SizeDraws == {0, 1, 12, 13, 150, 1000, 5000}
BaseSizes == {[num |-> 1, den |-> 1], [num |-> 5, den |-> 4],
              [num |-> 3, den |-> 2], [num |-> 100, den |-> 1]}

PriceInitPrices == {4, 5}
PriceTickSizes == {2, 3}
PriceDraws == [price_change |-> {-1, 2}, distance |-> {0, 50, 150}, size |-> {5000},
               ids |-> 1..MaxPriceOrders]

VARIABLES inst, ex, emitted, ret, calls, config, twin

vars == <<inst, ex, emitted, ret, calls, config, twin>>

Range(s) == {s[k] : k \in 1..Len(s)}
Min(a, b) == IF a < b THEN a ELSE b
Max(a, b) == IF a > b THEN a ELSE b

\* ---- class Order ----
Order(ord_id, ref_id, ord_symbol, ord_type, ord_price, ord_qty, ord_action) ==
  [id |-> ord_id, ref_id |-> ref_id, symbol |-> ord_symbol, type |-> ord_type,
   price |-> ord_price, qty |-> ord_qty, action |-> ord_action]

\* Mutant of Order_str: a key for every field that holds a value.
Order_strPopulated(o) ==
  << <<"id", o.id>>, <<"ref_id", o.ref_id>>, <<"symbol", o.symbol>>, <<"type", o.type>> >>
    \o (IF o.price # None THEN << <<"price", o.price>> >> ELSE << >>)
    \o (IF o.qty # None THEN << <<"qty", o.qty>> >> ELSE << >>)
    \o (IF o.action # None THEN << <<"action", o.action>> >> ELSE << >>)

\* Order.__str__: the order_dict handed to json.dumps, as its key-value pairs
\* in insertion order.
Order_str(o) ==
  LET order_dict == << <<"id", o.id>>, <<"ref_id", o.ref_id>>,
                       <<"symbol", o.symbol>>, <<"type", o.type>> >>
  IN IF o.type = "LIMIT"
     THEN order_dict \o << <<"price", o.price>>, <<"qty", o.qty>>, <<"action", o.action>> >>
     ELSE IF o.type = "MARKET"
     THEN order_dict \o << <<"qty", o.qty>>, <<"action", o.action>> >>
     ELSE IF o.type = "MODIFY"
     THEN order_dict \o << <<"price", o.price>>, <<"qty", o.qty>> >>
     ELSE order_dict

\* ---- class Instrument ----
\* __init__ assigns curr_price, symbol, volatility, drift and history;
\* tick_count and tick_size are not assigned there.
InstrumentInit(symbol, init_price) ==
  [symbol |-> symbol, curr_price |-> init_price, history |-> << >>,
   tick_count |-> Unset, tick_size |-> Unset]

\* Python's round(n / d): nearest integer, ties to the even one.
RoundHalfEven(n, d) ==
  LET nn == IF d < 0 THEN -n ELSE n
      dd == IF d < 0 THEN -d ELSE d
      q == nn \div dd
      r == nn - q * dd
  IN IF 2 * r < dd THEN q
     ELSE IF 2 * r > dd THEN q + 1
     ELSE IF q % 2 = 0 THEN q ELSE q + 1

\* Mutant of update_price: the new price is stored without quantization.
update_priceUnrounded(I, tick_size, price_change) ==
  [I EXCEPT !.curr_price = I.curr_price + price_change]

update_price(I, tick_size, price_change) ==
  LET new_price == I.curr_price + price_change
  IN [I EXCEPT !.curr_price = RoundHalfEven(new_price, tick_size) * tick_size]

\* Mutant of limit_price100: the two sides are swapped.
limit_price100Swapped(I, action, distance) ==
  IF action = "BUY"
  THEN I.curr_price * (100 + distance)
  ELSE I.curr_price * (100 - distance)

\* The price before rounding, times 100: curr_price * (1 -/+ distance).
limit_price100(I, action, distance) ==
  IF action = "BUY"
  THEN I.curr_price * (100 - distance)
  ELSE I.curr_price * (100 + distance)

generate_limit_price(I, action, distance) ==
  LET price100 == limit_price100(I, action, distance)
  IN RoundHalfEven(price100, 100 * Val(I.tick_size)) * Val(I.tick_size)

\* max(1, min(size, base_size * 10)) for any base_size, a float parameter:
\* numbers are fractions [num, den] with den > 0, size is the int drawn.
\* min and max return their first argument on a tie.
generate_order_size_base(ord_type, size, base_size) ==
  LET cap == [num |-> base_size.num * 10, den |-> base_size.den]
      least == IF size * cap.den <= cap.num THEN [num |-> size, den |-> 1] ELSE cap
  IN IF least.num > least.den THEN least ELSE [num |-> 1, den |-> 1]

\* The call with the default base_size = 100.
generate_order_size(ord_type, size) ==
  generate_order_size_base(ord_type, size, [num |-> BaseSize, den |-> 1]).num

\* A dict keeps insertion order: d[k] = v replaces the value of an existing
\* key in place and appends a new key.
DictSet(h, k, v) ==
  IF \E j \in 1..Len(h) : h[j].key = k
  THEN [j \in 1..Len(h) |-> IF h[j].key = k THEN [key |-> k, val |-> v] ELSE h[j]]
  ELSE Append(h, [key |-> k, val |-> v])

DictKeys(h) == [j \in 1..Len(h) |-> h[j].key]

\* Mutant of SelectType: the type is drawn also on an empty history.
SelectTypeAlwaysDrawn(I, d) == d.type

\* if not self.history: 'LIMIT' else np.random.choice(order_types)
SelectType(I, d) ==
  IF I.history = << >> THEN "LIMIT" ELSE d.type

\* Mutants of HistoryInsert: CANCEL orders are stored too; a CANCEL deletes
\* its target.
HistoryInsertAlways(h, order) == DictSet(h, order.id, order)

HistoryInsertDropTarget(h, order) ==
  LET Kept(e) == Some(e.key) # order.ref_id
  IN IF order.type # "CANCEL" THEN DictSet(h, order.id, order) ELSE SelectSeq(h, Kept)

\* Mutant of HistoryInsert: the test is inverted, only CANCEL orders are stored.
HistoryInsertOnlyCancel(h, order) ==
  IF order.type = "CANCEL" THEN DictSet(h, order.id, order) ELSE h

\* if ord_type != 'CANCEL': self.history[order.id] = order
HistoryInsert(h, order) ==
  IF order.type # "CANCEL" THEN DictSet(h, order.id, order) ELSE h

\* Mutant of AdvancesPrice: a MODIFY order advances the price too.
AdvancesPriceAlsoModify(ord_type) == ord_type \in {"LIMIT", "MODIFY"}

\* Only the LIMIT branch calls update_price.
AdvancesPrice(ord_type) == ord_type = "LIMIT"

\* The draws one next_order call may consume on instrument I, used being the
\* ids already generated in the run and R the supports of the numeric draws.
DrawsFor(I, used, R) ==
  [type : Range(order_types),
   price_change : R.price_change,
   action : Range(order_action),
   distance : R.distance,
   size : R.size,
   ref : IF I.history = << >> THEN {0} ELSE 1..Len(I.history),
   uuid : R.ids \ used]

\* Instrument.next_order with the draws d: the instrument afterwards and the
\* order returned.
next_order(I0, tick_size, d) ==
  LET I == [I0 EXCEPT !.tick_size = Some(tick_size)]
      ord_type == SelectType(I, d)
      hasHist == I.history # << >>
      priced == ord_type = "LIMIT" \/ (ord_type = "MODIFY" /\ hasHist)
      I1 == IF AdvancesPrice(ord_type)
            THEN update_price(I, tick_size, d.price_change) ELSE I
      ord_action == IF priced \/ ord_type = "MARKET" THEN Some(d.action) ELSE None
      ord_price == IF priced
                   THEN Some(generate_limit_price(I1, d.action, d.distance)) ELSE None
      ord_qty == IF priced \/ ord_type = "MARKET"
                 THEN Some(generate_order_size(ord_type, d.size)) ELSE None
      ref_id == IF ord_type \in {"CANCEL", "MODIFY"} /\ hasHist
                THEN Some(DictKeys(I.history)[d.ref]) ELSE None
      order == Order(d.uuid, ref_id, I.symbol, ord_type, ord_price, ord_qty, ord_action)
  IN [inst |-> [I1 EXCEPT !.history = HistoryInsert(@, order)], order |-> order]

UsedIds(orders) == {orders[k].id : k \in 1..Len(orders)}

\* Instrument.tick: self.tick_count += 1 reads the attribute first, so it
\* raises AttributeError, before anything is written, while tick_count is unset.
TickRaises(I) == I.tick_count = Unset

instrument_tick(I, tick_size, d) ==
  next_order([I EXCEPT !.tick_count = Some(Val(@) + 1)], tick_size, d)

\* ---- class Exchange ----
ExchangeInit(instruments) ==
  [instruments |-> instruments, tick_size |-> ExTickSize, tick_time |-> ExTickTime,
   tick_count |-> 0, history |-> << >>]

\* The for loop of Exchange.tick from its k-th instrument on: the set of
\* states the loop can end in.  st holds what the loop has written so far,
\* its variable order and the exception that ended it, if any.
RECURSIVE exchange_loop(_, _, _, _)
exchange_loop(E, k, st, R) ==
  IF k > Len(E.instruments) THEN {st}
  ELSE LET s == E.instruments[k]
           I == st.inst[s]
       IN IF TickRaises(I) THEN {[st EXCEPT !.raised = Some("AttributeError")]}
          ELSE UNION {
                 LET out == instrument_tick(I, E.tick_size, d)
                 IN exchange_loop(E, k + 1,
                      [inst |-> [st.inst EXCEPT ![s] = out.inst],
                       history |-> DictSet(st.history, out.order.id, out.order),
                       emitted |-> Append(st.emitted, out.order),
                       order |-> Some(out.order),
                       raised |-> None], R)
                 : d \in DrawsFor(I, UsedIds(st.emitted), R) }

\* How a call ended: status is "ok" or the exception raised, value the Order
\* returned, if any.
NoReturn == [op |-> "none", status |-> "none", value |-> None]

InitWith(prices, instruments) ==
  /\ inst = [s \in Symbols |-> InstrumentInit(s, prices[s])]
  /\ ex = ExchangeInit(instruments)
  /\ emitted = << >>
  /\ ret = NoReturn
  /\ calls = 0
  /\ config = [init_price |-> prices, instruments |-> instruments]
  /\ twin = [inst |-> inst, emitted |-> << >>]

\* The state after the constructions of main().
Init == InitWith(MainPrices, MainInstruments)

\* The state after any constructions: neither constructor checks its arguments.
InitConfig ==
  \E p \in [Symbols -> InitPrices], l \in InstrumentLists : InitWith(p, l)

\* Mutant of NextOrderCall: history is one dict shared by all instruments, as
\* a class attribute would be.
NextOrderCallSharedHistory(s, bound, tickSizes, R) ==
  /\ Len(emitted) < bound
  /\ \E tick_size \in tickSizes, d \in DrawsFor(inst[s], UsedIds(emitted), R) :
       LET out == next_order(inst[s], tick_size, d)
       IN /\ inst' = [t \in Symbols |->
                        IF t = s THEN out.inst
                        ELSE [inst[t] EXCEPT !.history = out.inst.history]]
          /\ emitted' = Append(emitted, out.order)
          /\ ret' = [op |-> "next_order", status |-> "ok", value |-> Some(out.order)]
  /\ UNCHANGED <<ex, calls, config, twin>>

\* A direct call of Instrument.next_order(tick_size, tick_time) on instrument s.
NextOrderCall(s, bound, tickSizes, R) ==
  /\ Len(emitted) < bound
  /\ \E tick_size \in tickSizes, d \in DrawsFor(inst[s], UsedIds(emitted), R) :
       LET out == next_order(inst[s], tick_size, d)
       IN /\ inst' = [inst EXCEPT ![s] = out.inst]
          /\ emitted' = Append(emitted, out.order)
          /\ ret' = [op |-> "next_order", status |-> "ok", value |-> Some(out.order)]
  /\ UNCHANGED <<ex, calls, config, twin>>

\* A direct call of Instrument.tick(tick_size, tick_time) on instrument s.
InstrumentTickCall(s, bound, tickSizes, R) ==
  /\ Len(emitted) < bound
  /\ IF TickRaises(inst[s])
     THEN /\ ret' = [op |-> "Instrument.tick", status |-> "AttributeError", value |-> None]
          /\ UNCHANGED <<inst, emitted>>
     ELSE \E tick_size \in tickSizes, d \in DrawsFor(inst[s], UsedIds(emitted), R) :
            LET out == instrument_tick(inst[s], tick_size, d)
            IN /\ inst' = [inst EXCEPT ![s] = out.inst]
               /\ emitted' = Append(emitted, out.order)
               /\ ret' = [op |-> "Instrument.tick", status |-> "ok", value |-> Some(out.order)]
  /\ UNCHANGED <<ex, calls, config, twin>>

\* A call of Exchange.tick(): the loop, then `return order`, which raises
\* UnboundLocalError when the loop body never ran.
ExchangeTickCall(R) ==
  /\ calls < MaxTicks
  /\ \E fin \in exchange_loop(ex, 1,
                  [inst |-> inst, history |-> ex.history, emitted |-> emitted,
                   order |-> Unset, raised |-> None], R) :
       /\ inst' = fin.inst
       /\ ex' = [ex EXCEPT !.history = fin.history]
       /\ emitted' = fin.emitted
       /\ ret' = IF fin.raised # None
                 THEN [op |-> "Exchange.tick", status |-> Val(fin.raised), value |-> None]
                 ELSE IF fin.order = Unset
                 THEN [op |-> "Exchange.tick", status |-> "UnboundLocalError", value |-> None]
                 ELSE [op |-> "Exchange.tick", status |-> "ok", value |-> fin.order]
  /\ calls' = calls + 1
  /\ UNCHANGED <<config, twin>>

NextOrder(s) == NextOrderCall(s, MaxOrders, {ExTickSize}, RunDraws)
InstrumentTick(s) == InstrumentTickCall(s, MaxOrders, {ExTickSize}, RunDraws)
ExchangeTick == ExchangeTickCall(RunDraws)

Next ==
  \/ \E s \in Symbols : NextOrder(s)
  \/ \E s \in Symbols : InstrumentTick(s)
  \/ ExchangeTick

Spec == Init /\ [][Next]_vars

\* ---- runs of an arbitrary configuration ----
ConfigNextOrder(s) == NextOrderCall(s, MaxConfigOrders, TickSizes, WideDraws)
ConfigInstrumentTick(s) == InstrumentTickCall(s, MaxConfigOrders, TickSizes, WideDraws)
ConfigExchangeTick == ExchangeTickCall(WideDraws)

ConfigNext ==
  \/ \E s \in Symbols : ConfigNextOrder(s)
  \/ \E s \in Symbols : ConfigInstrumentTick(s)
  \/ ConfigExchangeTick

SpecConfig == InitConfig /\ [][ConfigNext]_vars

\* ---- runs that vary the price draws, on one instrument ----
PriceSymbol == "AAPL"

InitPrice ==
  \E p \in PriceInitPrices :
    InitWith([MainPrices EXCEPT ![PriceSymbol] = p], MainInstruments)

PriceNextOrder == NextOrderCall(PriceSymbol, MaxPriceOrders, PriceTickSizes, PriceDraws)

PriceNext == PriceNextOrder

SpecPrice == InitPrice /\ [][PriceNext]_vars

\* ---- calls of generate_order_size ----
SizeCall ==
  /\ \E ord_type \in Range(order_types), size \in SizeDraws, base_size \in BaseSizes :
       ret' = [op |-> "generate_order_size", status |-> "ok",
               value |-> Some([ord_type |-> ord_type, size |-> size,
                               base_size |-> base_size,
                               result |-> generate_order_size_base(ord_type, size,
                                                                   base_size)])]
  /\ UNCHANGED <<inst, ex, emitted, calls, config, twin>>

SizeNext == SizeCall

SpecSize == Init /\ [][SizeNext]_vars

\* ---- two runs of the driver's configuration on the same np.random draws ----
\* Both runs call next_order on the same instrument with the same draws d of
\* the seeded source; uuid.uuid4() is not drawn from it, each run has its own.
TwinNextOrder(s) ==
  /\ Len(emitted) < MaxTwinOrders
  /\ \E d \in DrawsFor(inst[s], UsedIds(emitted), RunDraws),
        id2 \in Ids \ UsedIds(twin.emitted) :
       LET out == next_order(inst[s], ExTickSize, d)
           out2 == next_order(twin.inst[s], ExTickSize, [d EXCEPT !.uuid = id2])
       IN /\ inst' = [inst EXCEPT ![s] = out.inst]
          /\ emitted' = Append(emitted, out.order)
          /\ twin' = [inst |-> [twin.inst EXCEPT ![s] = out2.inst],
                      emitted |-> Append(twin.emitted, out2.order)]
  /\ UNCHANGED <<ex, ret, calls, config>>

TwinNext == \E s \in Symbols : TwinNextOrder(s)

SpecTwin == Init /\ [][TwinNext]_vars

\* ======================= claims =======================
Referencing(o) == o.type \in {"CANCEL", "MODIFY"}

\* C1: every emitted CANCEL or MODIFY order carries a ref_id that is the id
\* of an order the same instrument emitted earlier, that order is not a
\* CANCEL, and no order of another instrument carries that id.
RefIdsValid ==
  \A k \in 1..Len(emitted) :
    Referencing(emitted[k]) =>
      /\ \E j \in 1..(k - 1) :
           /\ Some(emitted[j].id) = emitted[k].ref_id
           /\ emitted[j].symbol = emitted[k].symbol
           /\ emitted[j].type # "CANCEL"
      /\ \A j \in 1..Len(emitted) :
           Some(emitted[j].id) = emitted[k].ref_id => emitted[j].symbol = emitted[k].symbol

\* An instrument has emitted a CANCEL or MODIFY order after the other
\* instrument had emitted an order that its own history stores.
RefIdsValidWitness ==
  \E i, k \in 1..Len(emitted) :
    /\ i < k
    /\ emitted[i].symbol # emitted[k].symbol
    /\ emitted[i].type # "CANCEL"
    /\ Referencing(emitted[k])
    /\ emitted[k].ref_id # None

\* C2: the first order each instrument emits is a LIMIT order.
FirstOrderIsLimit ==
  \A k \in 1..Len(emitted) :
    (\A j \in 1..(k - 1) : emitted[j].symbol # emitted[k].symbol)
      => emitted[k].type = "LIMIT"

\* Both instruments have emitted their first order and one of them a
\* non-LIMIT order after it.
FirstOrderIsLimitWitness ==
  /\ \A s \in Symbols : \E k \in 1..Len(emitted) : emitted[k].symbol = s
  /\ \E k \in 1..Len(emitted) : emitted[k].type # "LIMIT"

Populated(o) == {f \in {"ref_id", "price", "qty", "action"} : o[f] # None}

TableFields(type) ==
  CASE type = "LIMIT" -> {"price", "qty", "action"}
    [] type = "MARKET" -> {"qty", "action"}
    [] type = "CANCEL" -> {"ref_id"}
    [] type = "MODIFY" -> {"ref_id", "price", "qty"}

\* C3: the non-None fields among ref_id, price, qty and action of every
\* returned Order are exactly those of the table for its type.
FieldsMatchTable ==
  \A k \in 1..Len(emitted) : Populated(emitted[k]) = TableFields(emitted[k].type)

\* C4: an Exchange.tick call returns a sequence with one order per owned
\* instrument, in registration order.
ExchangeTickReturnsAll ==
  ret.op = "Exchange.tick" =>
    /\ ret.status = "ok"
    /\ ret.value # None
    /\ Len(Val(ret.value)) = Len(ex.instruments)
    /\ \A k \in 1..Len(ex.instruments) : Val(ret.value)[k].symbol = ex.instruments[k]

\* C5: an Instrument.tick call on a constructed instrument completes without
\* error and returns an Order.
InstrumentTickReturnsOrder ==
  ret.op = "Instrument.tick" => ret.status = "ok" /\ ret.value # None

\* C6: two runs of the same configuration on the same draws of the seeded
\* source emit the same orders, field for field, id and ref_id included.
TwinRunsIdentical == twin.emitted = emitted

\* C7: no call runs on an invalid configuration: once a call has been made,
\* every init_price is positive, the instrument list is not empty and every
\* tick_size an instrument was given is positive.
InvalidConfigRejected ==
  (emitted # << >> \/ ret.op # "none") =>
    /\ \A s \in Symbols : config.init_price[s] > 0
    /\ config.instruments # << >>
    /\ \A s \in Symbols : inst[s].tick_size # Unset => Val(inst[s].tick_size) > 0

NonCancelOf(s) ==
  LET Stored(o) == o.symbol = s /\ o.type # "CANCEL"
  IN SelectSeq(emitted, Stored)

\* C8: the history of an instrument holds exactly the non-CANCEL orders the
\* instrument has emitted, in emission order, each under its own id.
HistoryIsNonCancelEmitted ==
  \A s \in Symbols :
    inst[s].history =
      [k \in 1..Len(NonCancelOf(s)) |->
         [key |-> NonCancelOf(s)[k].id, val |-> NonCancelOf(s)[k]]]

\* An instrument has emitted a CANCEL and then a stored order: the cancelled
\* target and the later order are both in its history.
HistoryIsNonCancelEmittedWitness ==
  \E j, k \in 1..Len(emitted) :
    /\ j < k
    /\ emitted[j].symbol = emitted[k].symbol
    /\ emitted[j].type = "CANCEL"
    /\ emitted[k].type # "CANCEL"
    /\ Len(inst[emitted[k].symbol].history) >= 2

TickCountCountsCalls == ex.tick_count = calls

\* C11: no Exchange.tick call of the driver's run ends in an exception, so
\* the run completes every tick call and reaches its end.
DriverNeverAborts ==
  ~(ret.op = "Exchange.tick" /\ ret.status \in {"AttributeError", "UnboundLocalError"})

StrKeys(o) == {Order_str(o)[k][1] : k \in 1..Len(Order_str(o))}

\* C12: the keys of a serialized order are id, ref_id, symbol and type plus
\* the fields the table gives for its type, whatever the Order object holds.
StrKeysByType ==
  \A k \in 1..Len(emitted) :
    StrKeys(emitted[k]) =
      {"id", "ref_id", "symbol", "type"} \cup TableFields(emitted[k].type)

\* A MODIFY order that holds an action has been emitted, and orders of two
\* more types.
StrKeysByTypeWitness ==
  /\ \E k \in 1..Len(emitted) : emitted[k].type = "MODIFY" /\ emitted[k].action # None
  /\ Cardinality({emitted[k].type : k \in 1..Len(emitted)}) >= 3

\* The order the last call emitted, its instrument as the call left it and
\* the tick_size of the call.
LastOrder == emitted[Len(emitted)]
LastInst == inst[LastOrder.symbol]
LastTick == Val(LastInst.tick_size)

\* C13: after a call that advances the price, curr_price is a multiple of the
\* tick_size of the call, and the price of an emitted LIMIT or MODIFY order
\* is a multiple of the tick_size of its call.
PricesOnGrid ==
  emitted # << >> =>
    /\ LastOrder.type = "LIMIT" => LastInst.curr_price % LastTick = 0
    /\ LastOrder.type \in {"LIMIT", "MODIFY"} => Val(LastOrder.price) % LastTick = 0

\* An instrument whose init_price is off the grid of the call's tick_size has
\* emitted a MODIFY order after its LIMIT order.
PricesOnGridWitness ==
  /\ emitted # << >>
  /\ LastOrder.type = "MODIFY"
  /\ config.init_price[LastOrder.symbol] % LastTick # 0

\* C15: when curr_price at emission is positive and on the grid of the
\* call's tick_size, a BUY order's price is at most curr_price and a SELL
\* order's price at least curr_price, before rounding (for every distance
\* >= 0) and after.
BuyBelowSellAbove ==
  (/\ emitted # << >>
   /\ LastOrder.type \in {"LIMIT", "MODIFY"}
   /\ LastInst.curr_price > 0
   /\ LastInst.curr_price % LastTick = 0) =>
    /\ \A distance \in PriceDraws.distance :
         /\ limit_price100(LastInst, "BUY", distance) <= 100 * LastInst.curr_price
         /\ limit_price100(LastInst, "SELL", distance) >= 100 * LastInst.curr_price
    /\ LastOrder.action = Some("BUY") => Val(LastOrder.price) <= LastInst.curr_price
    /\ LastOrder.action = Some("SELL") => Val(LastOrder.price) >= LastInst.curr_price

\* A MODIFY order was emitted at a positive curr_price on the grid, with a
\* price strictly on its side of curr_price.
BuyBelowSellAboveWitness ==
  /\ emitted # << >>
  /\ LastOrder.type = "MODIFY"
  /\ LastInst.curr_price > 0
  /\ LastInst.curr_price % LastTick = 0
  /\ \/ LastOrder.action = Some("BUY") /\ Val(LastOrder.price) < LastInst.curr_price
     \/ LastOrder.action = Some("SELL") /\ Val(LastOrder.price) > LastInst.curr_price

\* The order a step emits and its instrument before and after the step.
Emits == Len(emitted') = Len(emitted) + 1
NewOrder == emitted'[Len(emitted')]

\* C17: a call that emits a MARKET, CANCEL or MODIFY order leaves curr_price
\* unchanged, and a MODIFY order's price is a limit price of the curr_price
\* the instrument had before the call, that of its most recent LIMIT order.
CurrPriceOnlyByLimit ==
  [][Emits =>
       LET s == NewOrder.symbol
       IN /\ NewOrder.type # "LIMIT" => inst'[s].curr_price = inst[s].curr_price
          /\ NewOrder.type = "MODIFY" =>
               \E distance \in PriceDraws.distance :
                 Val(NewOrder.price) =
                   generate_limit_price(
                     [inst[s] EXCEPT !.tick_size = inst'[s].tick_size],
                     Val(NewOrder.action), distance)]_vars

\* A MODIFY order was emitted after a LIMIT order had moved curr_price away
\* from init_price.
CurrPriceOnlyByLimitWitness ==
  /\ emitted # << >>
  /\ LastOrder.type = "MODIFY"
  /\ LastInst.curr_price # config.init_price[LastOrder.symbol]

\* C14: generate_order_size returns an integer q with 1 <= q <= base_size * 10
\* for every order type, every base_size >= 1 and every draw.
OrderSizeBoundedInteger ==
  ret.op = "generate_order_size" =>
    LET q == Val(ret.value).result
        b == Val(ret.value).base_size
    IN /\ q.num % q.den = 0
       /\ q.num >= q.den
       /\ q.num * b.den <= 10 * b.num * q.den

\* C16: a call that emits an order of one instrument leaves the state of
\* every other instrument unchanged.
OtherInstrumentsUnchanged ==
  [][Emits => \A s \in Symbols \ {NewOrder.symbol} : inst'[s] = inst[s]]_vars

\* Both instruments have emitted orders, the last one after the other
\* instrument's history and price were written.
OtherInstrumentsUnchangedWitness ==
  /\ \A s \in Symbols : inst[s].history # << >>
  /\ \E s \in Symbols \ {LastOrder.symbol} : inst[s].curr_price # config.init_price[s]
  /\ Len(emitted) >= 3

\* C18: every emitted CANCEL or MODIFY order has a ref_id, and an instrument
\* that has emitted an order has a non-empty history.
ReferencePoolNeverEmpty ==
  /\ \A k \in 1..Len(emitted) : Referencing(emitted[k]) => emitted[k].ref_id # None
  /\ \A s \in Symbols :
       (\E k \in 1..Len(emitted) : emitted[k].symbol = s) => inst[s].history # << >>

\* An instrument has emitted a CANCEL and then another CANCEL or MODIFY: its
\* pool still holds only its first order.
ReferencePoolNeverEmptyWitness ==
  \E j, k \in 1..Len(emitted) :
    /\ j < k
    /\ emitted[j].symbol = emitted[k].symbol
    /\ emitted[j].type = "CANCEL"
    /\ Referencing(emitted[k])
    /\ Len(inst[emitted[k].symbol].history) <= 2
====
